---- MODULE Spec2Model ----
(***************************************************************************)
(* tunableX: parameter classes (parameters.py) and the tunable decorator   *)
(* with its call-time wrapper (decorators.py).                             *)
(*                                                                         *)
(* Python strings are sequences of one-character strings, so that          *)
(* str.lower(), ".".join() and str.split(".") are computed, not assumed.   *)
(* Python objects that matter by identity are strings naming the object.   *)
(***************************************************************************)
EXTENDS Integers, Sequences, FiniteSets, TLC

VARIABLES
    classes,     \* the parameter classes defined so far, in definition order
    fns,         \* the decorated functions: what each wrapper closes over
    registry,    \* REGISTRY: the registered entries, in registration order
    active_cfg,  \* _active_cfg.get(): the active configuration, or None
    last         \* the last call of a wrapper: its arguments and what it did

vars == <<classes, fns, registry, active_cfg, last>>

(***************************************************************************)
(* Bounds                                                                  *)
(***************************************************************************)
MaxClasses == 3

MaxFns == 2

MaxSolo == 1

(***************************************************************************)
(* Strings                                                                 *)
(***************************************************************************)
EmptyStr == <<>>

Dot == "."

\* str.lower() on one character
LowerChar(c) ==
    CASE c = "A" -> "a"
      [] c = "B" -> "b"
      [] c = "C" -> "c"
      [] c = "I" -> "i"
      [] c = "M" -> "m"
      [] c = "N" -> "n"
      [] OTHER -> c

\* str.lower()
Lower(s) == [i \in 1..Len(s) |-> LowerChar(s[i])]

\* ".".join(parts)
RECURSIVE JoinDots(_)
JoinDots(parts) ==
    IF Len(parts) = 0 THEN EmptyStr
    ELSE IF Len(parts) = 1 THEN parts[1]
    ELSE parts[1] \o <<Dot>> \o JoinDots(Tail(parts))

\* s.split("."): always at least one segment, "" splits into [""]
RECURSIVE SplitDots(_)
SplitDots(s) ==
    IF \A i \in 1..Len(s) : s[i] # Dot THEN <<s>>
    ELSE LET k == CHOOSE i \in 1..Len(s) :
                      s[i] = Dot /\ \A j \in 1..(i - 1) : s[j] # Dot
         IN  <<SubSeq(s, 1, k - 1)>> \o SplitDots(SubSeq(s, k + 1, Len(s)))

Reverse(s) == [i \in 1..Len(s) |-> s[Len(s) + 1 - i]]

\* name.startswith("_")
StartsWithUnderscore(n) == Len(n) > 0 /\ n[1] = "_"

(***************************************************************************)
(* Values.  A class attribute is either a FieldInfo (field = TRUE, with   *)
(* its .default) or a plain object; v names the object (identity).         *)
(***************************************************************************)
Plain(o) == [field |-> FALSE, v |-> o]

FieldInfo(o) == [field |-> TRUE, v |-> o]

NoneObj == "None"

NoneVal == Plain(NoneObj)

NameMain == <<"M", "a", "i", "n">>

NameMAIN == <<"M", "A", "I", "N">>

NameA == <<"A">>

NameB == <<"B">>

NameC == <<"C">>

ClassNames == {NameMain, NameMAIN, NameA, NameB, NameC}

fx == <<"x">>

fy == <<"y">>

\* the root marker TunableParameters, as a parent
TunableParameters == 0

(***************************************************************************)
(* parameters.py                                                           *)
(***************************************************************************)
\* cls.__mro__ up to (excluding) TunableParameters, most specific first
RECURSIVE Mro(_, _)
Mro(T, i) ==
    IF i = TunableParameters THEN <<>> ELSE <<i>> \o Mro(T, T[i].parent)

\* getattr(base, name, None): the first class of the MRO holding the name
RECURSIVE GetAttrIn(_, _, _)
GetAttrIn(T, mro, n) ==
    IF Len(mro) = 0 THEN NoneVal
    ELSE IF n \in DOMAIN T[mro[1]].dict THEN T[mro[1]].dict[n]
    ELSE GetAttrIn(T, Tail(mro), n)

GetAttr(T, i, n) == GetAttrIn(T, Mro(T, i), n)

\* one iteration of the loop over reversed(cls.__mro__)
CollectStep(T, fields, base) ==
    LET upd == {n \in T[base].anns :
                    ~StartsWithUnderscore(n) /\ GetAttr(T, base, n) # NoneVal}
    IN  [n \in (DOMAIN fields) \cup upd |->
            IF n \in upd THEN GetAttr(T, base, n) ELSE fields[n]]

RECURSIVE CollectFold(_, _, _)
CollectFold(T, fields, bases) ==
    IF Len(bases) = 0 THEN fields
    ELSE CollectFold(T, CollectStep(T, fields, bases[1]), Tail(bases))

_collect_fields_from_class(T, i) ==
    CollectFold(T, [n \in {} |-> NoneVal], Reverse(Mro(T, i)))

\* the loop that drops the class names equal to "main" and lower-cases the rest
RECURSIVE NamespaceParts(_)
NamespaceParts(hierarchy) ==
    IF Len(hierarchy) = 0 THEN <<>>
    ELSE IF Lower(hierarchy[1]) = Lower(NameMain)
         THEN NamespaceParts(Tail(hierarchy))
         ELSE <<Lower(hierarchy[1])>> \o NamespaceParts(Tail(hierarchy))

\* the inheritance chain, reversed to go from most general to most specific
Hierarchy(T, i) ==
    LET mro == Mro(T, i) IN Reverse([k \in 1..Len(mro) |-> T[mro[k]].name])

\* as _calculate_namespace_from_class, with hierarchy.reverse() left out
_calculate_namespace_unreversed(T, i) ==
    LET namespace_parts == NamespaceParts(Reverse(Hierarchy(T, i)))
    IN  IF Len(namespace_parts) = 0 THEN EmptyStr ELSE JoinDots(namespace_parts)

_calculate_namespace_from_class(T, i) ==
    LET namespace_parts == NamespaceParts(Hierarchy(T, i))
    IN  IF Len(namespace_parts) = 0 THEN EmptyStr ELSE JoinDots(namespace_parts)

\* field_info.default if hasattr(field_info, "default") else field_info
DefaultOf(field_info) == Plain(field_info.v)

\* setattr(cls, field_name, default_value) for every collected field
_setup_class_attribute_access(dict, fields) ==
    [n \in (DOMAIN dict) \cup (DOMAIN fields) |->
        IF n \in DOMAIN fields THEN DefaultOf(fields[n]) ELSE dict[n]]

\* the class as the class statement leaves it, before __init_subclass__
NewClass(name, parent, body) ==
    [name |-> name, parent |-> parent, anns |-> DOMAIN body, dict |-> body,
     declared |-> body, namespace |-> EmptyStr,
     fields |-> [n \in {} |-> NoneVal]]

_register_parameter_class(T, i) ==
    LET fields == _collect_fields_from_class(T, i)
        namespace == _calculate_namespace_from_class(T, i)
    IN  [T EXCEPT ![i].namespace = namespace,
                  ![i].fields = fields,
                  ![i].dict = _setup_class_attribute_access(T[i].dict, fields)]

get_parameter_class_namespace(T, i) == T[i].namespace

\* class name(parent): body   -- runs __init_subclass__
DefineClass(name, parent, body) ==
    /\ Len(classes) < MaxClasses
    /\ \A i \in 1..Len(classes) : classes[i].name # name
    /\ parent \in 0..Len(classes)
    /\ classes' = _register_parameter_class(
                      Append(classes, NewClass(name, parent, body)),
                      Len(classes) + 1)
    /\ UNCHANGED <<fns, registry, active_cfg, last>>

(***************************************************************************)
(* Configuration objects: a structured object ("obj"), a plain dict        *)
(* ("dict"), a leaf value ("val"), None ("none"), a bound method           *)
(* ("method", what getattr gives for a dict's method name).                *)
(***************************************************************************)
NoneCfg == [kind |-> "none"]

Leaf(v) == [kind |-> "val", v |-> v]

Obj(items) == [kind |-> "obj", items |-> items]

Dict(items) == [kind |-> "dict", items |-> items]

Method == [kind |-> "method"]

NoItems == [k \in {} |-> NoneCfg]

\* the attributes every dict has (two of them)
DictAttrs == {<<"g", "e", "t">>, <<"i", "t", "e", "m", "s">>}

\* BaseModel.model_dump(): nested models become dicts
RECURSIVE model_dump(_)
model_dump(o) ==
    IF o.kind \in {"obj", "dict"}
    THEN [kind |-> "dict", items |-> [k \in DOMAIN o.items |-> model_dump(o.items[k])]]
    ELSE o

(***************************************************************************)
(* decorators.py: tunable(...)(fn)                                         *)
(***************************************************************************)
NoneNs == [some |-> FALSE]

Ns(s) == [some |-> TRUE, s |-> s]

\* inspect._empty
Empty == "_empty"

\* the default "..." of a required schema field
Ellipsis == "..."

Param(name, kind, default) == [name |-> name, kind |-> kind, default |-> default]

\* the keys of sig.parameters
ParamNames(sig) == {sig[i].name : i \in DOMAIN sig}

\* as IsSelected, with an included name selected only if it has a default
IsSelected_NeedsDefault(p, include_set, mode, exclude_set) ==
    IF include_set # {} THEN p.name \in include_set /\ p.default # Empty
    ELSE IF mode = "exclude" /\ exclude_set # {}
         THEN p.default # Empty /\ p.name \notin exclude_set
         ELSE p.default # Empty

\* the selection rule applied to one non-variadic parameter
IsSelected(p, include_set, mode, exclude_set) ==
    IF include_set # {} THEN p.name \in include_set
    ELSE IF mode = "exclude" /\ exclude_set # {}
         THEN p.default # Empty /\ p.name \notin exclude_set
         ELSE p.default # Empty

\* the parameters the loops over sig.parameters.items() keep, in order
SelectedParams(sig, include_set, mode, exclude_set) ==
    SelectSeq(sig, LAMBDA p :
        /\ p.kind \notin {"VAR_POSITIONAL", "VAR_KEYWORD"}
        /\ IsSelected(p, include_set, mode, exclude_set))

\* fields[name] = (ann, default), default "..." when the parameter has none
FieldsOf(params) ==
    [n \in {params[i].name : i \in DOMAIN params} |->
        LET p == params[CHOOSE i \in DOMAIN params : params[i].name = n]
        IN  IF p.default # Empty THEN p.default ELSE Ellipsis]

\* the public names of dir(obj)
DirNames(T, i) ==
    {n \in UNION {DOMAIN T[Mro(T, i)[k]].dict : k \in 1..Len(Mro(T, i))} :
        ~StartsWithUnderscore(n)}

\* some public attribute of the class is the default object itself
ClassExposes(T, i, default_value) ==
    \E n \in DirNames(T, i) : GetAttr(T, i, n) = Plain(default_value)

\* the scan of fn_globals.values(), in the order of the globals
RECURSIVE InferScan(_, _, _)
InferScan(T, fn_globals, default_value) ==
    IF Len(fn_globals) = 0 THEN NoneNs
    ELSE IF ClassExposes(T, fn_globals[1], default_value)
         THEN Ns(get_parameter_class_namespace(T, fn_globals[1]))
         ELSE InferScan(T, Tail(fn_globals), default_value)

_infer_namespace_from_class_attribute(T, default_value, fn_globals) ==
    InferScan(T, fn_globals, default_value)

\* param_ns = _infer_namespace_from_class_attribute(...) or ""
ParamNs(T, p, fn_globals) ==
    LET r == _infer_namespace_from_class_attribute(T, p.default, fn_globals)
    IN  IF r.some /\ r.s # EmptyStr THEN r.s ELSE EmptyStr

\* the keys of namespace_groups in insertion order
RECURSIVE GroupKeys(_, _, _, _)
GroupKeys(T, params, fn_globals, seen) ==
    IF Len(params) = 0 THEN seen
    ELSE LET ns == ParamNs(T, params[1], fn_globals)
         IN  GroupKeys(T, Tail(params), fn_globals,
                 IF \E k \in DOMAIN seen : seen[k] = ns THEN seen ELSE Append(seen, ns))

namespace_groups(T, params, fn_globals) ==
    LET keys == GroupKeys(T, params, fn_globals, <<>>)
    IN  [k \in DOMAIN keys |->
            [ns |-> keys[k],
             fields |-> FieldsOf(SelectSeq(params,
                            LAMBDA p : ParamNs(T, p, fn_globals) = keys[k]))]]

TunableEntry(fn, model, namespace, apps) ==
    [fn |-> fn, model |-> model, namespace |-> namespace, apps |-> apps]

\* REGISTRY.register(entry): the registry is an append-only collection
REGISTRY_register(reg, entry) == Append(reg, entry)

RECURSIVE RegisterAll(_, _)
RegisterAll(reg, entries) ==
    IF Len(entries) = 0 THEN reg
    ELSE RegisterAll(REGISTRY_register(reg, entries[1]), Tail(entries))

\* what decorator(fn) registers
EntriesFor(T, fn, sig, include_set, mode, exclude_set, namespace, apps, fn_globals) ==
    LET sel == SelectedParams(sig, include_set, mode, exclude_set)
        groups == namespace_groups(T, sel, fn_globals)
    IN  IF ~namespace.some
        THEN [k \in DOMAIN groups |->
                 TunableEntry(fn, groups[k].fields, groups[k].ns, apps)]
        ELSE <<TunableEntry(fn, FieldsOf(sel), namespace.s, apps)>>

\* @tunable(*include, namespace=, mode=, exclude=, apps=) applied to a new
\* function with signature sig whose module globals list the classes fn_globals
Decorate(sig, include_set, mode, exclude_set, namespace, apps, fn_globals) ==
    /\ Len(fns) < MaxFns
    /\ \A k \in DOMAIN fn_globals : fn_globals[k] \in 1..Len(classes)
    /\ LET fn == Len(fns) + 1
           entries == EntriesFor(classes, fn, sig, include_set, mode, exclude_set,
                                 namespace, apps, fn_globals)
       IN
       /\ registry' = RegisterAll(registry, entries)
       \* the closure of the wrapper (sig, namespace, fn), and for the record the
       \* decorator's arguments and the namespaces it registered, in order
       /\ fns' = Append(fns,
              [sig |-> sig, namespace |-> namespace, include_set |-> include_set,
               mode |-> mode, exclude_set |-> exclude_set, fn_globals |-> fn_globals,
               registered |-> [k \in DOMAIN entries |-> entries[k].namespace]])
    /\ UNCHANGED <<classes, active_cfg, last>>

(***************************************************************************)
(* decorators.py: the wrapper                                              *)
(***************************************************************************)
\* hasattr(obj, seg)
HasAttr(obj, seg) ==
    CASE obj.kind = "obj" -> seg \in DOMAIN obj.items
      [] obj.kind = "dict" -> seg \in DictAttrs
      [] OTHER -> FALSE

\* getattr(obj, seg), where hasattr(obj, seg)
GetAttrCfg(obj, seg) == IF obj.kind = "obj" THEN obj.items[seg] ELSE Method

RECURSIVE ResolveSegs(_, _)
ResolveSegs(obj, segs) ==
    IF Len(segs) = 0 THEN obj
    ELSE IF obj = NoneCfg \/ ~HasAttr(obj, segs[1]) THEN NoneCfg
    ELSE ResolveSegs(GetAttrCfg(obj, segs[1]), Tail(segs))

_resolve_nested_section(cfg_model, dotted_ns) ==
    ResolveSegs(cfg_model, SplitDots(dotted_ns))

\* section.model_dump() exists
CanDump(section) == section.kind \in {"obj", "dict"}

\* data = section if isinstance(section, dict) else section.model_dump()
DataOf(section) ==
    IF section.kind = "dict" THEN section.items ELSE model_dump(section).items

\* {k: v for k, v in data.items() if k in sig.parameters}
Filtered(sig, data) == [k \in {k \in DOMAIN data : k \in ParamNames(sig)} |-> data[k]]

\* d.update(e): e wins
Update(d, e) ==
    [k \in (DOMAIN d) \cup (DOMAIN e) |-> IF k \in DOMAIN e THEN e[k] ELSE d[k]]

Min(a, b) == IF a < b THEN a ELSE b

\* fn(*args, **injected, **kwargs): Python's argument binding
PyCall(sig, args, injected, kwargs) ==
    LET pos == SelectSeq(sig, LAMBDA p : p.kind = "POSITIONAL_OR_KEYWORD")
        posNames == {pos[i].name : i \in DOMAIN pos}
        hasVarPos == \E i \in DOMAIN sig : sig[i].kind = "VAR_POSITIONAL"
        hasVarKw == \E i \in DOMAIN sig : sig[i].kind = "VAR_KEYWORD"
        nbound == Min(Len(args), Len(pos))
        boundPos == {pos[i].name : i \in 1..nbound}
        kw == Update(injected, kwargs)
        err == \/ (DOMAIN injected) \cap (DOMAIN kwargs) # {}
               \/ Len(args) > Len(pos) /\ ~hasVarPos
               \/ \E k \in DOMAIN kw : k \in boundPos
               \/ \E k \in DOMAIN kw : k \notin posNames /\ ~hasVarKw
               \/ \E i \in (nbound + 1)..Len(pos) :
                      pos[i].name \notin DOMAIN kw /\ pos[i].default = Empty
    IN  IF err
        THEN [outcome |-> "TypeError", calls |-> 0, received |-> NoItems]
        ELSE [outcome |-> "ok", calls |-> 1,
              received |-> [n \in posNames |->
                  LET i == CHOOSE j \in DOMAIN pos : pos[j].name = n
                  IN  IF i <= nbound THEN args[i]
                      ELSE IF n \in DOMAIN kw THEN kw[n]
                      ELSE Leaf(pos[i].default)]]

\* as EntriesOf, with the scan seeing one entry per namespace, the last one
EntriesOf_OnePerNamespace(reg, fn) ==
    LET numbered == [k \in DOMAIN reg |-> [k |-> k, entry |-> reg[k]]]
        kept == SelectSeq(numbered, LAMBDA r :
                    /\ r.entry.fn = fn
                    /\ \A j \in DOMAIN reg :
                          j > r.k => reg[j].namespace # r.entry.namespace)
    IN  [k \in DOMAIN kept |-> kept[k].entry]

\* the entries the scan of REGISTRY.by_namespace.values() keeps: entry.fn is fn
EntriesOf(reg, fn) == SelectSeq(reg, LAMBDA entry : entry.fn = fn)

\* the namespaces the wrapper resolves: its entries', or the explicit one
WrapperNamespaces(reg, fn, namespace) ==
    IF ~namespace.some
    THEN [k \in DOMAIN EntriesOf(reg, fn) |-> EntriesOf(reg, fn)[k].namespace]
    ELSE <<namespace.s>>

\* the merge loop: [combined_params, sections resolved, error raised]
RECURSIVE Combine(_, _, _, _)
Combine(sig, app_cfg, nss, acc) ==
    IF Len(nss) = 0 \/ acc.error THEN acc
    ELSE LET section == _resolve_nested_section(app_cfg, nss[1])
             seen == Append(acc.sections, [ns |-> nss[1], section |-> section])
         IN  Combine(sig, app_cfg, Tail(nss),
                 IF section = NoneCfg
                 THEN [acc EXCEPT !.sections = seen]
                 ELSE IF ~CanDump(section)
                 THEN [acc EXCEPT !.sections = seen, !.error = TRUE]
                 ELSE [acc EXCEPT !.sections = seen,
                          !.combined = Update(acc.combined,
                                              Filtered(sig, DataOf(section)))])

CombinedParams(reg, fn, f, app_cfg) ==
    Combine(f.sig, app_cfg, WrapperNamespaces(reg, fn, f.namespace),
            [combined |-> NoItems, sections |-> <<>>, error |-> FALSE])

\* wrapper(*args, cfg=cfg, **kwargs)
Wrapper(reg, fn, f, app_cfg, args, cfg, kwargs) ==
    IF cfg # NoneCfg
    THEN LET filtered == Filtered(f.sig, DataOf(cfg))
         IN  [path |-> "cfg", injected |-> filtered, sections |-> <<>>]
                 @@ PyCall(f.sig, args, filtered, kwargs)
    ELSE IF app_cfg # NoneCfg
    THEN LET c == CombinedParams(reg, fn, f, app_cfg)
         IN  IF c.error
             THEN [path |-> "active", injected |-> c.combined, sections |-> c.sections,
                   outcome |-> "AttributeError", calls |-> 0, received |-> NoItems]
             ELSE [path |-> "active", injected |-> c.combined, sections |-> c.sections]
                      @@ PyCall(f.sig, args, c.combined, kwargs)
    ELSE [path |-> "plain", injected |-> NoItems, sections |-> <<>>]
             @@ PyCall(f.sig, args, NoItems, kwargs)

\* a call of the wrapped function fn
Call(fn, args, cfg, kwargs) ==
    /\ fn \in 1..Len(fns)
    /\ last' = [made |-> TRUE, fn |-> fn, args |-> args, cfg |-> cfg,
                kwargs |-> kwargs, app_cfg |-> active_cfg]
                   @@ Wrapper(registry, fn, fns[fn], active_cfg, args, cfg, kwargs)
    /\ UNCHANGED <<classes, fns, registry, active_cfg>>

\* the active configuration is set for a scope, or the scope is left
SetActive(cfg) ==
    /\ active_cfg # cfg
    /\ active_cfg' = cfg
    /\ UNCHANGED <<classes, fns, registry, last>>

(***************************************************************************)
(* Class bodies                                                            *)
(***************************************************************************)
DeclVals == {Plain("o1"), Plain("o2"), FieldInfo("o1"), FieldInfo(NoneObj), NoneVal}

NoBody == [n \in {} |-> NoneVal]

BodiesX == {NoBody} \cup {[n \in {fx} |-> d] : d \in DeclVals}

Init ==
    /\ classes = <<>>
    /\ fns = <<>>
    /\ registry = <<>>
    /\ active_cfg = NoneCfg
    /\ last = [made |-> FALSE]

\* parameter classes only, any names, with or without one field
NextNamespace ==
    \E name \in ClassNames, parent \in 0..MaxClasses,
       body \in {NoBody, [n \in {fx} |-> Plain("o1")]} :
        DefineClass(name, parent, body)

SpecNamespace == Init /\ [][NextNamespace]_vars

\* the class at position k has the k-th name; bodies declare x in every way
NameAt(k) == IF k = 1 THEN NameMain ELSE IF k = 2 THEN NameA
             ELSE IF k = 3 THEN NameB ELSE NameC

NextFields ==
    \E parent \in 0..MaxClasses, body \in BodiesX :
        DefineClass(NameAt(Len(classes) + 1), parent, body)

SpecFields == Init /\ [][NextFields]_vars

(***************************************************************************)
(* Inputs of the binder                                                    *)
(***************************************************************************)
NameArgs == <<"a", "r", "g", "s">>

NameKw == <<"k", "w">>

SigXY(dx, dy) ==
    <<Param(fx, "POSITIONAL_OR_KEYWORD", dx), Param(fy, "POSITIONAL_OR_KEYWORD", dy)>>

SigXArgs(dx) ==
    <<Param(fx, "POSITIONAL_OR_KEYWORD", dx), Param(NameArgs, "VAR_POSITIONAL", Empty),
      Param(NameKw, "VAR_KEYWORD", Empty)>>

\* the classes defined so far in definition order, and in the opposite order
GlobalsOrders ==
    {[i \in 1..Len(classes) |-> i], [i \in 1..Len(classes) |-> Len(classes) + 1 - i]}

NsA == <<"a">>

CfgB == Obj((fx :> Leaf("v6")))

CfgA == Obj((fx :> Leaf("v7")) @@ (fy :> Leaf("v8")) @@ (<<"b">> :> CfgB))

\* a structured configuration: x at top level, sections a and a.b
CfgRoot == Obj((fx :> Leaf("v9")) @@ (NsA :> CfgA))

\* a structured configuration without section a
CfgNoA == Obj((fy :> Leaf("v4")))

\* a structured configuration whose sections share no key
CfgSplit == Obj((fx :> Leaf("v9")) @@ (NsA :> Obj((fy :> Leaf("v8")))))

Apps == {"train"}

\* the parameter classes of an application: Main, A, B, C in this order, each
\* directly under the root marker or under the class defined before it
NextBindClass ==
    \E parent \in {TunableParameters, Len(classes)},
       body \in {[n \in {fx} |-> Plain("o1")], [n \in {fy} |-> Plain("o2")]} :
        /\ Len(classes) = 0 => body = [n \in {fx} |-> Plain("o1")]
        /\ Len(classes) = 1 => body = [n \in {fy} |-> Plain("o2")]
        /\ DefineClass(NameAt(Len(classes) + 1), parent, body)

\* the chain Main, A(Main), B(A), C(B)
NextChainClass ==
    DefineClass(NameAt(Len(classes) + 1), Len(classes),
                IF Len(classes) = 0 THEN [n \in {fx} |-> Plain("o1")]
                ELSE IF Len(classes) = 1 THEN [n \in {fy} |-> Plain("o2")]
                ELSE NoBody)

NextSelectDecorate ==
    \E sig \in {SigXY(Empty, Empty), SigXY(Empty, "o2"), SigXY("o1", "o2"),
                SigXArgs("o1")},
       include_set \in {{}, {fx}, {fy, NameArgs}},
       mode \in {"include", "exclude"},
       exclude_set \in {{}, {fy}},
       namespace \in {NoneNs, Ns(NsA)} :
        /\ Len(fns) < MaxSolo
        /\ Decorate(sig, include_set, mode, exclude_set, namespace, Apps,
                    [i \in 1..Len(classes) |-> i])

SpecSelect == Init /\ [][NextChainClass \/ NextSelectDecorate]_vars

NextRegistryDecorate ==
    \E sig \in {SigXY("o1", "o2"), SigXY("o2", "o9")},
       namespace \in {NoneNs, Ns(NsA), Ns(EmptyStr)} :
        Decorate(sig, {}, "include", {}, namespace, Apps,
                 [i \in 1..Len(classes) |-> i])

NextRegistryCall ==
    \E fn \in 1..MaxFns : Call(fn, <<>>, NoneCfg, NoItems)

NextRegistryActive == \E cfg \in {NoneCfg, CfgRoot} : SetActive(cfg)

SpecRegistry ==
    Init /\ [][NextChainClass \/ NextRegistryDecorate \/ NextRegistryCall
               \/ NextRegistryActive]_vars

\* one wrapped function, called in every way
NextCallDecorate ==
    \E sig \in {SigXY("o1", "o2"), SigXArgs("o1")},
       namespace \in {NoneNs, Ns(NsA), Ns(EmptyStr)},
       fn_globals \in GlobalsOrders :
        /\ Len(fns) < MaxSolo
        /\ Decorate(sig, {}, "include", {}, namespace, Apps, fn_globals)

NextCallCall ==
    \E fn \in 1..MaxFns,
       args \in {<<>>, <<Leaf("v5")>>},
       cfg \in {NoneCfg, Dict((fx :> Leaf("v9"))),
                Obj((fx :> Leaf("v9")) @@ (<<"z">> :> Leaf("v1")))},
       kwargs \in {NoItems, (fx :> Leaf("v5"))} :
        Call(fn, args, cfg, kwargs)

NextCallActive ==
    \E cfg \in {NoneCfg, CfgRoot, model_dump(CfgRoot), CfgNoA} : SetActive(cfg)

SpecCall ==
    Init /\ [][NextChainClass \/ NextCallDecorate \/ NextCallCall \/ NextCallActive]_vars

\* functions whose namespaces are inferred from their defaults, called plainly
NextInferDecorate ==
    \E sig \in {SigXY("o1", "o2"), SigXY("o2", "o1")},
       fn_globals \in GlobalsOrders :
        Decorate(sig, {}, "include", {}, NoneNs, Apps, fn_globals)

NextInferCall == \E fn \in 1..MaxFns : Call(fn, <<>>, NoneCfg, NoItems)

NextInferActive ==
    \E cfg \in {NoneCfg, CfgRoot, CfgSplit, model_dump(CfgRoot)} : SetActive(cfg)

SpecInfer ==
    Init /\ [][NextBindClass \/ NextInferDecorate \/ NextInferCall \/ NextInferActive]_vars

Next == NextChainClass \/ NextCallDecorate \/ NextCallCall \/ NextCallActive

Spec == SpecCall

(***************************************************************************)
(* Claims about parameters.py                                              *)
(***************************************************************************)
IsMainName(n) == Lower(n) = <<"m", "a", "i", "n">>

ChainLen(i) == Len(Mro(classes, i))

\* C6 as stated: for a chain [A, B, C] below the root marker the namespace is
\* "b.c" when A is named main (case-insensitively) and "a.b.c" otherwise, and
\* the class named main alone has the empty namespace.
C6_NamespaceOfChain ==
    \A i \in 1..Len(classes) :
        LET h == Hierarchy(classes, i) IN
        /\ ChainLen(i) = 3 =>
              classes[i].namespace =
                  IF IsMainName(h[1])
                  THEN Lower(h[2]) \o <<".">> \o Lower(h[3])
                  ELSE Lower(h[1]) \o <<".">> \o Lower(h[2]) \o <<".">> \o Lower(h[3])
        /\ (ChainLen(i) = 1 /\ IsMainName(h[1])) => classes[i].namespace = <<>>

C6_Seg(n) == IF IsMainName(n) THEN <<>> ELSE <<Lower(n)>>

\* C6 amended: every class of the chain named main (case-insensitively),
\* wherever it stands, contributes no segment; the other classes contribute
\* their lower-cased names, general to specific, joined by dots.  When neither
\* B nor C is named main this is "b.c" if A is named main and "a.b.c" if not.
C6_NamespaceSkipsEveryMain ==
    \A i \in 1..Len(classes) :
        LET h == Hierarchy(classes, i) IN
        /\ ChainLen(i) = 3 =>
              /\ classes[i].namespace = JoinDots(C6_Seg(h[1]) \o C6_Seg(h[2]) \o C6_Seg(h[3]))
              /\ (~IsMainName(h[2]) /\ ~IsMainName(h[3])) =>
                    classes[i].namespace =
                        IF IsMainName(h[1])
                        THEN Lower(h[2]) \o <<".">> \o Lower(h[3])
                        ELSE Lower(h[1]) \o <<".">> \o Lower(h[2]) \o <<".">> \o Lower(h[3])
        /\ (ChainLen(i) = 1 /\ IsMainName(h[1])) => classes[i].namespace = <<>>

\* a chain [Main, A, B] registered with namespace "a.b"
C6_Witness ==
    \E i \in 1..Len(classes) :
        /\ ChainLen(i) = 3
        /\ Hierarchy(classes, i) = <<NameMain, NameA, NameB>>
        /\ classes[i].namespace = <<"a", ".", "b">>

\* the classes of the chain of i that declare field n, most specific first
Declaring(i, n) ==
    SelectSeq(Mro(classes, i), LAMBDA j : n \in DOMAIN classes[j].declared)

RecordedDefault(i, n) ==
    IF n \in DOMAIN classes[i].fields THEN DefaultOf(classes[i].fields[n]) ELSE NoneVal

\* C7: for a field declared at several levels of the chain of a class, the
\* default recorded in the class's field mapping and the plain class attribute
\* are the default of the most specific declaration; and registering a class
\* leaves the value the class itself declares in place.
C7_MostSpecificDefault ==
    \A i \in 1..Len(classes) : \A n \in {fx, fy} :
        LET d == Declaring(i, n) IN
        /\ Len(d) >= 2 =>
              /\ RecordedDefault(i, n) = DefaultOf(classes[d[1]].declared[n])
              /\ GetAttr(classes, i, n) = DefaultOf(classes[d[1]].declared[n])
        /\ n \in DOMAIN classes[i].declared =>
              GetAttr(classes, i, n) = DefaultOf(classes[i].declared[n])

(***************************************************************************)
(* Claims about decorators.py                                              *)
(***************************************************************************)
\* The section of a configuration at a dotted namespace as the specification
\* defines it: the empty namespace is the configuration itself, every segment
\* is looked up by attribute or key alike, an absent segment gives None.
RECURSIVE C_Walk(_, _)
C_Walk(obj, segs) ==
    IF Len(segs) = 0 THEN obj
    ELSE IF obj.kind \in {"obj", "dict"} /\ segs[1] \in DOMAIN obj.items
         THEN C_Walk(obj.items[segs[1]], Tail(segs))
         ELSE NoneCfg

C_Section(cfg, ns) == IF ns = <<>> THEN cfg ELSE C_Walk(cfg, SplitDots(ns))

C_Keys(section) == IF section.kind \in {"obj", "dict"} THEN DOMAIN section.items ELSE {}

C_Item(section, k) == model_dump(section.items[k])

\* the caller passes n explicitly, by keyword or in its positional slot
C_Slot(sig, n) == CHOOSE i \in DOMAIN sig : sig[i].name = n

C_Explicit(n) ==
    LET i == C_Slot(fns[last.fn].sig, n) IN
    /\ fns[last.fn].sig[i].kind = "POSITIONAL_OR_KEYWORD"
    /\ (n \in DOMAIN last.kwargs) # (i <= Len(last.args))

C_ExplicitValue(n) ==
    IF n \in DOMAIN last.kwargs THEN last.kwargs[n]
    ELSE last.args[C_Slot(fns[last.fn].sig, n)]

\* C1: when the caller passes a parameter explicitly (keyword or positional
\* slot) and the cfg override or the active configuration supplies a value for
\* the same parameter, the original function is called once, without error,
\* and receives the explicit value.
C1_ExplicitArgumentWins ==
    last.made =>
        \A n \in ParamNames(fns[last.fn].sig) :
            (n \in DOMAIN last.injected /\ C_Explicit(n)) =>
                /\ last.outcome = "ok"
                /\ last.calls = 1
                /\ last.received[n] = C_ExplicitValue(n)

\* C2: the resolver maps the empty namespace to the configuration object
\* itself, so an entry under the root namespace contributes the top-level keys
\* of the active configuration that are parameter names (stated here for the
\* structured configurations alone).
C2_RootNamespaceIsTheConfig ==
    (last.made /\ last.path = "active" /\ last.app_cfg.kind = "obj") =>
        \A k \in DOMAIN last.sections :
            last.sections[k].ns = <<>> =>
                /\ last.sections[k].section = last.app_cfg
                /\ \A key \in C_Keys(last.app_cfg) :
                      key \in ParamNames(fns[last.fn].sig) => key \in DOMAIN last.injected

\* the call of last, had the active configuration been the nested dict with
\* the same contents
C5_Twin ==
    Wrapper(registry, last.fn, fns[last.fn], model_dump(last.app_cfg),
            last.args, last.cfg, last.kwargs)

\* C5: a nested dict as active configuration behaves as the structured object
\* with the same contents: the same sections are reached for the same
\* namespaces and the same keyword values are injected.
C5_DictSameAsStructured ==
    (last.made /\ last.path = "active" /\ last.app_cfg.kind = "obj") =>
        /\ C5_Twin.injected = last.injected
        /\ C5_Twin.outcome = last.outcome
        /\ C5_Twin.received = last.received
        /\ \A k \in DOMAIN last.sections :
              C5_Twin.sections[k].section = model_dump(last.sections[k].section)

\* the names of the schemas registered for fn
C_SchemaNames(fn) ==
    UNION {DOMAIN EntriesOf(registry, fn)[k].model : k \in DOMAIN EntriesOf(registry, fn)}

C_Variadic(p) == p.kind \in {"VAR_POSITIONAL", "VAR_KEYWORD"}

\* C8: with a non-empty include list the parameters named in it are selected
\* and no others, whatever their defaults, mode and exclude; otherwise with mode
\* exclude and a non-empty exclude list, the parameters with a default that are
\* not excluded; otherwise the parameters with a default; a variadic parameter
\* never; and the schemas registered for the function hold exactly these names.
C8_SelectionRule ==
    \A fn \in 1..Len(fns) :
        LET f == fns[fn] IN
        C_SchemaNames(fn) =
            {f.sig[i].name : i \in {i \in DOMAIN f.sig :
                /\ ~C_Variadic(f.sig[i])
                /\ IF f.include_set # {} THEN f.sig[i].name \in f.include_set
                   ELSE IF f.mode = "exclude" /\ f.exclude_set # {}
                        THEN f.sig[i].default # Empty /\ f.sig[i].name \notin f.exclude_set
                        ELSE f.sig[i].default # Empty}}

\* an include list selecting a parameter without default and leaving out one
\* with a default
C8_Witness ==
    \E fn \in 1..Len(fns) :
        /\ fns[fn].include_set = {fx}
        /\ fns[fn].sig = SigXY(Empty, "o2")
        /\ C_SchemaNames(fn) = {fx}

C_Selected(f) == SelectedParams(f.sig, f.include_set, f.mode, f.exclude_set)

C_InferredNs(f, p) == ParamNs(classes, p, f.fn_globals)

C_Matched(f, p) ==
    \E k \in DOMAIN f.fn_globals : ClassExposes(classes, f.fn_globals[k], p.default)

C_TwoNamespaces(f) ==
    /\ ~f.namespace.some
    /\ \A k \in DOMAIN C_Selected(f) : C_Matched(f, C_Selected(f)[k])
    /\ Cardinality({C_InferredNs(f, C_Selected(f)[k]) : k \in DOMAIN C_Selected(f)}) = 2

\* C4: a function without explicit namespace whose selected defaults are
\* matched to parameter classes of two different namespaces is registered as
\* exactly two entries, one per namespace, each schema holding the parameters
\* of its namespace; and a plain call under a structured active configuration
\* that has both sections passes the function every matching key of both
\* sections, with a value one of these sections gives it.
C4_TwoNamespacesMerged ==
    \A fn \in 1..Len(fns) :
        LET f == fns[fn]
            sel == C_Selected(f)
            es == EntriesOf(registry, fn)
            nss == {C_InferredNs(f, sel[k]) : k \in DOMAIN sel}
        IN  C_TwoNamespaces(f) =>
            /\ Len(es) = 2
            /\ {es[k].namespace : k \in DOMAIN es} = nss
            /\ \A k \in DOMAIN es :
                  DOMAIN es[k].model =
                      {sel[j].name : j \in {j \in DOMAIN sel :
                                              C_InferredNs(f, sel[j]) = es[k].namespace}}
            /\ (/\ last.made /\ last.fn = fn /\ last.path = "active"
                /\ last.app_cfg.kind = "obj"
                /\ \A ns \in nss : C_Section(last.app_cfg, ns) # NoneCfg) =>
                  /\ last.outcome = "ok"
                  /\ \A ns \in nss : \A key \in C_Keys(C_Section(last.app_cfg, ns)) :
                        key \in ParamNames(f.sig) =>
                            \E ns2 \in nss :
                                /\ key \in C_Keys(C_Section(last.app_cfg, ns2))
                                /\ last.received[key] =
                                       C_Item(C_Section(last.app_cfg, ns2), key)

C_Max(S) == CHOOSE m \in S : \A k \in S : k <= m

\* C9: when the sections of two namespaces registered for the called function
\* both hold a key that is a parameter name, the value injected for it is the
\* one of the namespace the function registered later (stated here for the
\* structured configurations alone).
C9_LaterNamespaceWins ==
    (last.made /\ last.path = "active" /\ last.app_cfg.kind = "obj"
        /\ ~fns[last.fn].namespace.some) =>
        LET nss == fns[last.fn].registered IN
        \A key \in ParamNames(fns[last.fn].sig) :
            LET holding == {k \in DOMAIN nss :
                               key \in C_Keys(C_Section(last.app_cfg, nss[k]))}
            IN  Cardinality(holding) >= 2 =>
                    /\ key \in DOMAIN last.injected
                    /\ last.injected[key] =
                           C_Item(C_Section(last.app_cfg, nss[C_Max(holding)]), key)

\* every order of the entries of a sequence without repetitions
C_Orders(g) ==
    {[i \in DOMAIN g |-> g[h[i]]] :
        h \in {h \in [DOMAIN g -> DOMAIN g] : \A i, j \in DOMAIN g : h[i] = h[j] => i = j}}

\* C10: the namespace inferred for a selected parameter is the same for every
\* order in which the parameter classes appear in the function's globals.
C10_InferenceIgnoresScanOrder ==
    \A fn \in 1..Len(fns) :
        LET f == fns[fn] IN
        ~f.namespace.some =>
            \A k \in DOMAIN C_Selected(f) : \A g \in C_Orders(f.fn_globals) :
                ParamNs(classes, C_Selected(f)[k], g) = C_InferredNs(f, C_Selected(f)[k])

====
